---- MODULE Spec2Model ----
(***************************************************************************)
(* sg-upload-service: the configuration builder (UploadConfigBuilder), the *)
(* validator (UploadService.validateFile) and the upload pipeline          *)
(* (UploadService.uploadFile and the stages it awaits).                    *)
(*                                                                         *)
(* Three specifications share the variables:                               *)
(*   BuilderSpec   sequences of builder calls, build() included            *)
(*   ValidateSpec  validateFile applied to bounded files and policies      *)
(*   Spec          concurrent uploadFile calls sharing one built policy    *)
(***************************************************************************)
EXTENDS Integers, Sequences, FiniteSets, TLC

VARIABLES
    config,     \* UploadConfigBuilder.config; build() returns this very object
    built,      \* TRUE once build() has returned the object to its caller
    snapshot,   \* the fields the object had when build() first returned it
    outcome,    \* how the last build() ended: "none", "ok" or an error kind
    log,        \* history: the builder calls made so far, oldest first
    file,       \* ValidateSpec: the file handed to validateFile
    result,     \* ValidateSpec: how validateFile ended ("pending" before)
    call,       \* Spec: per uploadFile call, its position and its local data
    disk,       \* Spec: the local filesystem, path -> content
    remote      \* Spec: the cloud bucket/container, key -> content

vars == <<config, built, snapshot, outcome, log, file, result, call, disk, remote>>

builderVars == <<config, built, snapshot, outcome, log>>
validateVars == <<file, result>>
uploadVars == <<call, disk, remote>>

(***************************************************************************)
(* Bounds                                                                  *)
(***************************************************************************)
MaxOps == 4       \* builder calls in one behaviour of BuilderSpec
MaxCalls == 2     \* concurrent uploadFile calls in one behaviour of Spec

(***************************************************************************)
(* Policy Model (UploadConfig).  An optional field that is undefined has   *)
(* def = FALSE; fileTypes is a finite map key -> FileTypeConfig.           *)
(***************************************************************************)
MB == 1024 * 1024

NoStorage == [type |-> "undefined", config |-> <<>>]
NoFileTypes == [def |-> FALSE, map |-> <<>>]
NoNumber == [def |-> FALSE, val |-> 0]
NoVirus == [def |-> FALSE, enabled |-> FALSE, clamav |-> <<>>]
NoCompression == [def |-> FALSE, enabled |-> FALSE, config |-> <<>>]
NoChunks == [def |-> FALSE, enabled |-> FALSE, size |-> NoNumber]

Num(n) == [def |-> TRUE, val |-> n]

\* private config: Partial<UploadConfig> = {}
EmptyConfig ==
    [storage |-> NoStorage, fileTypes |-> NoFileTypes, defaultMaxSize |-> NoNumber,
     virus |-> NoVirus, compression |-> NoCompression, chunks |-> NoChunks]

\* JavaScript truthiness of an optional number: undefined and 0 are falsy
Truthy(n) == n.def /\ n.val # 0

(***************************************************************************)
(* UploadConfigBuilder: each setter as a function of the partial config    *)
(***************************************************************************)
useLocalStorage(c, destination) ==
    [c EXCEPT !.storage = [type |-> "local", config |-> <<destination>>]]

useS3Storage(c, accessKeyId, secretAccessKey, region, bucket) ==
    [c EXCEPT !.storage =
        [type |-> "s3", config |-> <<accessKeyId, secretAccessKey, region, bucket>>]]

useAzureStorage(c, connectionString, container) ==
    [c EXCEPT !.storage = [type |-> "azure", config |-> <<connectionString, container>>]]

useGCPStorage(c, projectId, keyFilename, bucket) ==
    [c EXCEPT !.storage = [type |-> "gcp", config |-> <<projectId, keyFilename, bucket>>]]

\* if (!this.config.fileTypes) this.config.fileTypes = {}; fileTypes[name] = config
setFileType(c, name, ftc) ==
    LET old == IF c.fileTypes.def THEN c.fileTypes.map ELSE <<>>
        new == [k \in (DOMAIN old) \cup {name} |-> IF k = name THEN ftc ELSE old[k]]
    IN  [c EXCEPT !.fileTypes = [def |-> TRUE, map |-> new]]

setDefaultMaxSize(c, size) == [c EXCEPT !.defaultMaxSize = Num(size)]

enableVirusScanning(c, host, port) ==
    [c EXCEPT !.virus = [def |-> TRUE, enabled |-> TRUE, clamav |-> <<host, port>>]]

enableCompression(c, quality, maxWidth, maxHeight) ==
    [c EXCEPT !.compression =
        [def |-> TRUE, enabled |-> TRUE, config |-> <<quality, maxWidth, maxHeight>>]]

enableChunkedUploads(c, size) ==
    [c EXCEPT !.chunks = [def |-> TRUE, enabled |-> TRUE, size |-> size]]

\* build() without its second check
buildError_noFileTypesCheck(c) ==
    IF c.storage.type = "undefined" THEN "StorageRequired" ELSE "ok"

\* build(): the error it throws, or "ok"
buildError(c) ==
    IF c.storage.type = "undefined" THEN "StorageRequired"
    ELSE IF ~c.fileTypes.def THEN "FileTypesRequired"
    ELSE "ok"

\* build(): if (!this.config.defaultMaxSize) this.config.defaultMaxSize = 5 MiB
buildDefaultMaxSize(c) ==
    IF ~Truthy(c.defaultMaxSize) THEN Num(5 * MB) ELSE c.defaultMaxSize

\* build(): the object as build() leaves it (in place: it is this.config)
buildConfig(c) ==
    IF buildError(c) = "ok"
    THEN [c EXCEPT !.defaultMaxSize = buildDefaultMaxSize(c)]
    ELSE c

(***************************************************************************)
(* Validator                                                               *)
(***************************************************************************)
\* A file name is a sequence of tokens; the token "." is the character '.',
\* every other token is a run of characters holding no '.'.

\* String.prototype.split("."): the segments between the dots
RECURSIVE Split(_)
Split(name) ==
    IF name = <<>> THEN <<"">>
    ELSE LET init == Split(SubSeq(name, 1, Len(name) - 1))
             t == name[Len(name)]
         IN  IF t = "." THEN Append(init, "")
             ELSE [init EXCEPT ![Len(init)] = @ \o t]

\* Array.prototype.pop(): the last element
Pop(segments) == segments[Len(segments)]

\* file.originalname.split(".").pop()
fileExtension(f) == Pop(Split(f.originalname))

\* this.config.fileTypes[key]: <<the entry>>, or <<>> for undefined
Lookup(c, key) ==
    IF c.fileTypes.def /\ key \in DOMAIN c.fileTypes.map
    THEN <<c.fileTypes.map[key]>> ELSE <<>>

\* the two probes in the other order
fileTypeConfig_extensionFirst(c, f) ==
    IF Lookup(c, fileExtension(f)) # <<>> THEN Lookup(c, fileExtension(f))
    ELSE Lookup(c, f.mimetype)

\* fileTypes[file.mimetype] || fileTypes[extension]
fileTypeConfig(c, f) ==
    IF Lookup(c, f.mimetype) # <<>> THEN Lookup(c, f.mimetype)
    ELSE Lookup(c, fileExtension(f))

\* validateFile falling back to defaultMaxSize when no entry resolves
validateFile_defaultMaxSizeFallback(c, f) ==
    LET found == fileTypeConfig(c, f) IN
    IF found = <<>>
    THEN IF f.size > c.defaultMaxSize.val THEN "FileTooLarge" ELSE "ok"
    ELSE IF f.size > found[1].maxSize THEN "FileTooLarge"
    ELSE IF f.mimetype \notin found[1].allowedMimeTypes THEN "InvalidMimeType"
    ELSE IF fileExtension(f) \notin found[1].allowedExtensions THEN "InvalidExtension"
    ELSE "ok"

\* validateFile: "ok", or the kind of the error it throws
validateFile(c, f) ==
    LET found == fileTypeConfig(c, f) IN
    IF found = <<>> THEN "UnsupportedFileType"
    ELSE IF f.size > found[1].maxSize THEN "FileTooLarge"
    ELSE IF f.mimetype \notin found[1].allowedMimeTypes THEN "InvalidMimeType"
    ELSE IF fileExtension(f) \notin found[1].allowedExtensions THEN "InvalidExtension"
    ELSE "ok"

(***************************************************************************)
(* Inputs                                                                  *)
(***************************************************************************)
Destinations == {"/uploads"}
Buckets == {"media"}
Region == "eu-west-1"

PngConfig ==
    [maxSize |-> 1 * MB, allowedMimeTypes |-> {"image/png"}, allowedExtensions |-> {"png"}]
TxtConfig ==
    [maxSize |-> 2 * MB, allowedMimeTypes |-> {"text/plain"}, allowedExtensions |-> {"txt"}]
\* an entry whose lists name neither its own key nor lower-case extensions
OddConfig ==
    [maxSize |-> 600 * 1024, allowedMimeTypes |-> {"text/plain", "application/zip"},
     allowedExtensions |-> {"PNG", "gz"}]

NoFtc == [maxSize |-> 0, allowedMimeTypes |-> {}, allowedExtensions |-> {}]

\* one builder call: its name and its arguments (unused ones at their blanks)
Entry(op, s, n, ftc) == [op |-> op, s |-> s, n |-> n, ftc |-> ftc]

BuilderKeys == {"image/png", "txt"}
BuilderFtcs == {PngConfig, TxtConfig}
BuilderSizes == {0, 3 * MB}

\* the effect of one logged call on the partial config
Apply(c, e) ==
    CASE e.op = "useLocalStorage" -> useLocalStorage(c, e.s)
      [] e.op = "useS3Storage" -> useS3Storage(c, "AKIA", "secret", Region, e.s)
      [] e.op = "useAzureStorage" -> useAzureStorage(c, "conn", e.s)
      [] e.op = "useGCPStorage" -> useGCPStorage(c, "proj", "key.json", e.s)
      [] e.op = "setFileType" -> setFileType(c, e.s, e.ftc)
      [] e.op = "setDefaultMaxSize" -> setDefaultMaxSize(c, e.n)
      [] e.op = "enableVirusScanning" -> enableVirusScanning(c, e.s, e.n)
      [] e.op = "enableCompression" -> enableCompression(c, Num(e.n), NoNumber, NoNumber)
      [] e.op = "enableChunkedUploads" -> enableChunkedUploads(c, Num(e.n))
      [] e.op = "build" -> buildConfig(c)

\* the config after a sequence of calls on a new builder
RECURSIVE Replay(_)
Replay(calls) ==
    IF calls = <<>> THEN EmptyConfig
    ELSE Apply(Replay(SubSeq(calls, 1, Len(calls) - 1)), calls[Len(calls)])

(***************************************************************************)
(* BuilderSpec: calls on one UploadConfigBuilder, as forRoot's callback    *)
(* and forRoot itself make them                                            *)
(***************************************************************************)
\* the call is recorded in the history; nothing but the builder's object changes
Logged(e) ==
    /\ Len(log) < MaxOps
    /\ log' = Append(log, e)
    /\ UNCHANGED <<built, snapshot, outcome, file, result, call, disk, remote>>

UseLocalStorage ==
    \E d \in Destinations :
        /\ config' = useLocalStorage(config, d)
        /\ Logged(Entry("useLocalStorage", d, 0, NoFtc))

UseS3Storage ==
    \E b \in Buckets :
        /\ config' = useS3Storage(config, "AKIA", "secret", Region, b)
        /\ Logged(Entry("useS3Storage", b, 0, NoFtc))

UseAzureStorage ==
    \E b \in Buckets :
        /\ config' = useAzureStorage(config, "conn", b)
        /\ Logged(Entry("useAzureStorage", b, 0, NoFtc))

UseGCPStorage ==
    \E b \in Buckets :
        /\ config' = useGCPStorage(config, "proj", "key.json", b)
        /\ Logged(Entry("useGCPStorage", b, 0, NoFtc))

SetFileType ==
    \E k \in BuilderKeys, ftc \in BuilderFtcs :
        /\ config' = setFileType(config, k, ftc)
        /\ Logged(Entry("setFileType", k, 0, ftc))

SetDefaultMaxSize ==
    \E n \in BuilderSizes :
        /\ config' = setDefaultMaxSize(config, n)
        /\ Logged(Entry("setDefaultMaxSize", "", n, NoFtc))

EnableVirusScanning ==
    /\ config' = enableVirusScanning(config, "localhost", 3310)
    /\ Logged(Entry("enableVirusScanning", "localhost", 3310, NoFtc))

EnableCompression ==
    /\ config' = enableCompression(config, Num(80), NoNumber, NoNumber)
    /\ Logged(Entry("enableCompression", "", 80, NoFtc))

EnableChunkedUploads ==
    /\ config' = enableChunkedUploads(config, Num(MB))
    /\ Logged(Entry("enableChunkedUploads", "", MB, NoFtc))

\* build(): throws, or defaults defaultMaxSize in place and returns this.config
Build ==
    /\ Len(log) < MaxOps
    /\ log' = Append(log, Entry("build", "", 0, NoFtc))
    /\ outcome' = buildError(config)
    /\ config' = buildConfig(config)
    /\ IF buildError(config) = "ok" /\ ~built
       THEN built' = TRUE /\ snapshot' = config'
       ELSE UNCHANGED <<built, snapshot>>
    /\ UNCHANGED <<file, result, call, disk, remote>>

NoFile == [originalname |-> <<>>, mimetype |-> "", size |-> 0, buffer |-> ""]

BuilderInit ==
    /\ config = EmptyConfig
    /\ built = FALSE
    /\ snapshot = EmptyConfig
    /\ outcome = "none"
    /\ log = <<>>
    /\ file = NoFile
    /\ result = "pending"
    /\ call = <<>>
    /\ disk = <<>>
    /\ remote = <<>>

BuilderNext ==
    \/ UseLocalStorage
    \/ UseS3Storage
    \/ UseAzureStorage
    \/ UseGCPStorage
    \/ SetFileType
    \/ SetDefaultMaxSize
    \/ EnableVirusScanning
    \/ EnableCompression
    \/ EnableChunkedUploads
    \/ Build

BuilderSpec == BuilderInit /\ [][BuilderNext]_vars

(***************************************************************************)
(* Claims about the builder (BuilderSpec)                                  *)
(***************************************************************************)
StorageOps == {"useLocalStorage", "useS3Storage", "useAzureStorage", "useGCPStorage"}

StorageKind(e) ==
    CASE e.op = "useLocalStorage" -> "local"
      [] e.op = "useS3Storage" -> "s3"
      [] e.op = "useAzureStorage" -> "azure"
      [] e.op = "useGCPStorage" -> "gcp"

\* the positions of the calls named in ops
Positions(calls, ops) == {i \in DOMAIN calls : calls[i].op \in ops}

Max(S) == CHOOSE i \in S : \A j \in S : j <= i

\* the state right after a build() call, and the calls made before it
JustBuilt == log # <<>> /\ log[Len(log)].op = "build"
Prior == SubSeq(log, 1, Len(log) - 1)

\* the keys set by setFileType calls, and the last config given for a key
KeysSet(calls) == {calls[i].s : i \in Positions(calls, {"setFileType"})}
LastFtc(calls, k) ==
    calls[Max({i \in Positions(calls, {"setFileType"}) : calls[i].s = k})].ftc

\* C5: once build() has returned the Policy Model, no later builder call
\* (a setter, or another build()) changes any field of that returned object.
C5_PolicyImmutableAfterBuild == built => config = snapshot

C7_DefaultMaxSizeOnlyWhenNeverSet ==
    (JustBuilt /\ outcome = "ok") =>
        LET dm == Positions(Prior, {"setDefaultMaxSize"})
            before == Replay(Prior)
        IN  /\ config.defaultMaxSize =
                   IF dm # {} THEN Num(Prior[Max(dm)].n) ELSE Num(5 * MB)
            /\ [config EXCEPT !.defaultMaxSize = NoNumber]
                   = [before EXCEPT !.defaultMaxSize = NoNumber]

(***************************************************************************)
(* ValidateSpec: validateFile on every bounded file and file-type mapping  *)
(***************************************************************************)
Names ==
    { <<"a", ".", "png">>, <<"png">>, <<"a", ".", "PNG">>, <<"b", ".", "txt">>,
      <<"a", ".", "tar", ".", "gz">>, <<"a", ".">>, <<"notes">> }
Mimes == {"image/png", "text/plain", "application/zip"}
Sizes == {500 * 1024, 1536 * 1024, 3 * MB}
Files ==
    [originalname : Names, mimetype : Mimes, size : Sizes, buffer : {"A"}]

TypeKeys == {"image/png", "png", "txt"}
TypeConfigs == {PngConfig, TxtConfig, OddConfig}

\* every non-empty mapping from some of the keys to a FileTypeConfig
FileTypeMaps ==
    UNION {[D -> TypeConfigs] : D \in (SUBSET TypeKeys) \ {{}}}

\* the policy build() returns for a local destination and the mapping m
PolicyWith(m) ==
    buildConfig([useLocalStorage(EmptyConfig, "/uploads")
                    EXCEPT !.fileTypes = [def |-> TRUE, map |-> m]])

ValidateInit ==
    /\ \E m \in FileTypeMaps : config = PolicyWith(m)
    /\ built = TRUE
    /\ snapshot = config
    /\ outcome = "ok"
    /\ log = <<>>
    /\ file \in Files
    /\ result = "pending"
    /\ call = <<>>
    /\ disk = <<>>
    /\ remote = <<>>

ValidateFile ==
    /\ result = "pending"
    /\ result' = validateFile(config, file)
    /\ UNCHANGED <<config, built, snapshot, outcome, log, file, call, disk, remote>>

ValidateNext == ValidateFile

ValidateSpec == ValidateInit /\ [][ValidateNext]_vars

\* C2: validation reports one error by fixed priority: nothing resolves ->
\* UnsupportedFileType; else too large -> FileTooLarge; else MIME type not
\* allowed -> InvalidMimeType; else extension not allowed -> InvalidExtension;
\* else success.  The entry is resolved by the MIME key first, by the
\* extension key only when the MIME key is absent.
C2_ValidationPriority ==
    result # "pending" =>
        LET m == config.fileTypes.map
            ext == fileExtension(file)
            r == IF file.mimetype \in DOMAIN m THEN m[file.mimetype] ELSE m[ext]
        IN  IF file.mimetype \notin DOMAIN m /\ ext \notin DOMAIN m
            THEN result = "UnsupportedFileType"
            ELSE /\ file.size > r.maxSize => result = "FileTooLarge"
                 /\ (file.size <= r.maxSize /\ file.mimetype \notin r.allowedMimeTypes)
                        => result = "InvalidMimeType"
                 /\ (/\ file.size <= r.maxSize
                     /\ file.mimetype \in r.allowedMimeTypes
                     /\ ext \notin r.allowedExtensions) => result = "InvalidExtension"
                 /\ (/\ file.size <= r.maxSize
                     /\ file.mimetype \in r.allowedMimeTypes
                     /\ ext \in r.allowedExtensions) => result = "ok"

\* C2 witness: a validated file that is too large, of a MIME type and an
\* extension its entry does not allow, whose MIME key and extension key
\* both exist and name different entries
C2_Witness ==
    /\ result = "FileTooLarge"
    /\ file.mimetype \in DOMAIN config.fileTypes.map
    /\ fileExtension(file) \in DOMAIN config.fileTypes.map
    /\ config.fileTypes.map[file.mimetype] # config.fileTypes.map[fileExtension(file)]
    /\ file.mimetype \notin config.fileTypes.map[file.mimetype].allowedMimeTypes
    /\ fileExtension(file) \notin config.fileTypes.map[file.mimetype].allowedExtensions

\* the tokens of a name
Tokens(name) == {name[i] : i \in DOMAIN name}

\* C10: a name with no '.' has an empty extension, so its file never passes
\* validation: the extension key does not resolve it, and when the MIME key
\* resolves it and size and MIME type pass, the result is InvalidExtension.
\* A name with a '.' has the part after the last '.' as extension, compared
\* case-sensitively.
C10_DotlessNameNeverValid ==
    (result # "pending" /\ "." \notin Tokens(file.originalname)) =>
        LET m == config.fileTypes.map IN
        /\ result # "ok"
        /\ file.mimetype \notin DOMAIN m => result = "UnsupportedFileType"
        /\ (/\ file.mimetype \in DOMAIN m
            /\ file.size <= m[file.mimetype].maxSize
            /\ file.mimetype \in m[file.mimetype].allowedMimeTypes)
                => result = "InvalidExtension"

(***************************************************************************)
(* Spec: uploadFile calls running concurrently on one UploadService.  A    *)
(* call is suspended at each await; the code between two awaits is one     *)
(* step.                                                                   *)
(***************************************************************************)
Calls == 1 .. MaxCalls

\* the calls forRoot's callback makes before forRoot calls build()
StorageEntries ==
    { Entry("useLocalStorage", "/uploads", 0, NoFtc), Entry("useS3Storage", "media", 0, NoFtc),
      Entry("useAzureStorage", "media", 0, NoFtc), Entry("useGCPStorage", "media", 0, NoFtc) }
TypeEntries ==
    << Entry("setFileType", "image/png", 0, PngConfig), Entry("setFileType", "txt", 0, TxtConfig) >>
PolicyLogs ==
    { <<st>> \o TypeEntries \o v \o cp \o d \o <<Entry("build", "", 0, NoFtc)>> :
        st \in StorageEntries,
        v \in {<<>>, <<Entry("enableVirusScanning", "localhost", 3310, NoFtc)>>},
        cp \in {<<>>, <<Entry("enableCompression", "", 80, NoFtc)>>},
        d \in {<<>>, <<Entry("setDefaultMaxSize", "", 3 * MB, NoFtc)>>} }

UploadFiles ==
    { [originalname |-> <<"a", ".", "png">>, mimetype |-> "image/png",
       size |-> 500 * 1024, buffer |-> "A"],
      [originalname |-> <<"a", ".", "png">>, mimetype |-> "image/png",
       size |-> 500 * 1024, buffer |-> "B"],
      [originalname |-> <<"b", ".", "txt">>, mimetype |-> "text/plain",
       size |-> 500 * 1024, buffer |-> "A"],
      [originalname |-> <<"c", ".", "zip">>, mimetype |-> "application/zip",
       size |-> 500 * 1024, buffer |-> "A"] }

\* file.mimetype.startsWith("image/"), on the MIME types of the model
ImageMimes == {"image/png"}
StartsWithImage(mimetype) == mimetype \in ImageMimes

\* sharp(...).toBuffer(): the re-encoded bytes
Recompressed(buffer) == "z" \o buffer

\* this.config.virus?.enabled and this.config.compression?.enabled
VirusEnabled(c) == c.virus.def /\ c.virus.enabled
CompressionEnabled(c) == c.compression.def /\ c.compression.enabled

\* uploadFile storing without the scan
afterCompress_noScan(c) == "store"

\* uploadFile after the compression stage: scan if enabled, else store
afterCompress(c) == IF VirusEnabled(c) THEN "scan" ELSE "store"

\* uploadFile after validateFile: compress images, else go on
afterValidate(c, f) == IF StartsWithImage(f.mimetype) THEN "compress" ELSE afterCompress(c)

\* new Error(`<kind>: ${error.message}`): the wrapping kind first
Wrap(kind, inner) == <<kind>> \o inner

\* scanForVirus's try/catch around scanStream: the error the call ends with
\* for an engine verdict, <<>> when it goes on
scanStreamError(verdict) ==
    CASE verdict = "clean" -> <<>>
      [] verdict = "infected" -> Wrap("ScanFailed", <<"InfectedFile">>)
      [] verdict = "threw" -> Wrap("ScanFailed", <<"EngineError">>)

\* path.join(destination, filename)
Join(destination, filename) == <<destination, "/">> \o filename

\* storeFileLocally writing under the bare name
storeFileLocally_noDestination(c, filename) == filename

\* storeFileLocally: the path written and returned
storeFileLocally(c, filename) == Join(c.storage.config[1], filename)

\* the locator the three cloud backends return
storeFileRemotely(c, filename) ==
    CASE c.storage.type = "s3" ->
            <<"https://", c.storage.config[4], ".s3.", c.storage.config[3],
              ".amazonaws.com/">> \o filename
      [] c.storage.type = "azure" -> <<"blob:", c.storage.config[2], "/">> \o filename
      [] c.storage.type = "gcp" ->
            <<"https://storage.googleapis.com/", c.storage.config[3], "/">> \o filename

IdleCall ==
    [pc |-> "idle", file |-> NoFile, err |-> <<>>, url |-> <<>>, stages |-> <<>>,
     writes |-> 0, scan |-> "none"]

Fail(rec, error) == [rec EXCEPT !.pc = "failed", !.err = error]

\* f[key] := value, with key added to the domain
Put(f, key, value) == [k \in (DOMAIN f) \cup {key} |-> IF k = key THEN value ELSE f[k]]

Init ==
    /\ log \in PolicyLogs
    /\ config = Replay(log)
    /\ built = TRUE
    /\ snapshot = config
    /\ outcome = "ok"
    /\ file = NoFile
    /\ result = "pending"
    /\ call = [c \in Calls |-> IdleCall]
    /\ disk = <<>>
    /\ remote = <<>>

\* uploadFile, lines 28-33: validateFile, then the first await
UploadFile(c) ==
    \E f \in UploadFiles :
        /\ call[c].pc = "idle"
        /\ IF c = 1 THEN TRUE ELSE call[c - 1].pc # "idle"
        /\ LET v == validateFile(config, f)
               started == [call[c] EXCEPT !.file = f, !.stages = <<"validate">>]
           IN  call' = [call EXCEPT ![c] =
                   IF v # "ok" THEN Fail(started, <<v>>)
                   ELSE [started EXCEPT !.pc = afterValidate(config, f)]]
        /\ UNCHANGED <<builderVars, validateVars, disk, remote>>

\* compressImage, and uploadFile up to its next await
CompressImage(c) ==
    /\ call[c].pc = "compress"
    /\ LET rec == [call[c] EXCEPT !.stages = Append(@, "compress")] IN
       IF ~CompressionEnabled(config)
       THEN call' = [call EXCEPT ![c] = [rec EXCEPT !.pc = afterCompress(config)]]
       ELSE \E encoded \in BOOLEAN :
               call' = [call EXCEPT ![c] =
                   IF encoded
                   THEN [rec EXCEPT !.pc = afterCompress(config),
                                    !.file.buffer = Recompressed(@)]
                   ELSE Fail(rec, <<"CompressionError">>)]
    /\ UNCHANGED <<builderVars, validateVars, disk, remote>>

\* scanForVirus, lines 77-94: the configuration check and NodeClam.init
ScanForVirus(c) ==
    /\ call[c].pc = "scan"
    /\ LET rec == [call[c] EXCEPT !.stages = Append(@, "scan")] IN
       IF ~VirusEnabled(config)
       THEN call' = [call EXCEPT ![c] = [rec EXCEPT !.pc = "store"]]
       ELSE IF config.virus.clamav = <<>>
       THEN call' = [call EXCEPT ![c] = Fail(rec, <<"ScannerMisconfigured">>)]
       ELSE \E ready \in BOOLEAN :
               call' = [call EXCEPT ![c] =
                   IF ready THEN [rec EXCEPT !.pc = "scanStream"]
                   ELSE Fail([rec EXCEPT !.scan = "initFailed"], <<"EngineError">>)]
    /\ UNCHANGED <<builderVars, validateVars, disk, remote>>

\* scanForVirus, lines 96-110: scanStream inside the try/catch
ScanStream(c) ==
    /\ call[c].pc = "scanStream"
    /\ \E verdict \in {"clean", "infected", "threw"} :
        LET rec == [call[c] EXCEPT !.scan = verdict] IN
        call' = [call EXCEPT ![c] =
            IF scanStreamError(verdict) = <<>> THEN [rec EXCEPT !.pc = "store"]
            ELSE Fail(rec, scanStreamError(verdict))]
    /\ UNCHANGED <<builderVars, validateVars, disk, remote>>

\* storeFile and the backend it dispatches to: the write, or its failure
StoreFile(c) ==
    /\ call[c].pc = "store"
    /\ LET rec == [call[c] EXCEPT !.stages = Append(@, "store")]
           filename == call[c].file.originalname
       IN
       IF config.storage.type \notin {"local", "s3", "azure", "gcp"}
       THEN /\ call' = [call EXCEPT ![c] = Fail(rec, <<"UnsupportedStorageType">>)]
            /\ UNCHANGED <<disk, remote>>
       ELSE \E written \in BOOLEAN :
            IF ~written
            THEN /\ call' = [call EXCEPT ![c] = Fail(rec, <<"StorageError">>)]
                 /\ UNCHANGED <<disk, remote>>
            ELSE IF config.storage.type = "local"
            THEN LET filePath == storeFileLocally(config, filename) IN
                 /\ disk' = Put(disk, filePath, [content |-> rec.file.buffer, by |-> c])
                 /\ call' = [call EXCEPT ![c] =
                        [rec EXCEPT !.pc = "stored", !.url = filePath, !.writes = @ + 1]]
                 /\ UNCHANGED remote
            ELSE /\ remote' = Put(remote, filename, [content |-> rec.file.buffer, by |-> c])
                 /\ call' = [call EXCEPT ![c] =
                        [rec EXCEPT !.pc = "stored",
                                    !.url = storeFileRemotely(config, filename),
                                    !.writes = @ + 1]]
                 /\ UNCHANGED disk
    /\ UNCHANGED <<builderVars, validateVars>>

\* uploadFile, line 42: return { url: filePath }
Return(c) ==
    /\ call[c].pc = "stored"
    /\ call' = [call EXCEPT ![c].pc = "done"]
    /\ UNCHANGED <<builderVars, validateVars, disk, remote>>

Next ==
    \E c \in Calls :
        \/ UploadFile(c)
        \/ CompressImage(c)
        \/ ScanForVirus(c)
        \/ ScanStream(c)
        \/ StoreFile(c)
        \/ Return(c)

Spec == Init /\ [][Next]_vars

(***************************************************************************)
(* Claims about uploadFile (Spec)                                          *)
(***************************************************************************)
Started(c) == call[c].pc # "idle"
Ran(c, stage) == \E i \in DOMAIN call[c].stages : call[c].stages[i] = stage

StageRank(stage) ==
    CASE stage = "validate" -> 1
      [] stage = "compress" -> 2
      [] stage = "scan" -> 3
      [] stage = "store" -> 4

\* the storage entries a call has written
WrittenBy(c) ==
    {p \in DOMAIN disk : disk[p].by = c} \cup {k \in DOMAIN remote : remote[k].by = c}

\* C1: with scanning enabled and configured, a verdict isInfected = true makes
\* uploadFile fail with the kind InfectedFile (not ScanFailed), and the call
\* performs no storage write.
C1_InfectedFailsAsInfectedFile ==
    \A c \in Calls :
        call[c].scan = "infected" =>
            /\ call[c].pc = "failed"
            /\ Head(call[c].err) = "InfectedFile"
            /\ call[c].writes = 0
            /\ WrittenBy(c) = {}

\* C3: a file whose MIME type and extension are both absent from fileTypes
\* fails with UnsupportedFileType and runs no later stage, whatever
\* defaultMaxSize is.
C3_UnknownTypeIsUnsupported ==
    \A c \in Calls :
        (/\ Started(c)
         /\ Lookup(config, call[c].file.mimetype) = <<>>
         /\ Lookup(config, fileExtension(call[c].file)) = <<>>) =>
            /\ call[c].pc = "failed"
            /\ call[c].err = <<"UnsupportedFileType">>
            /\ call[c].stages = <<"validate">>
            /\ call[c].writes = 0
            /\ WrittenBy(c) = {}

\* C3 witness: such a call has failed although the policy's defaultMaxSize,
\* set explicitly, would admit the file's size
C3_Witness ==
    \E c \in Calls :
        /\ call[c].pc = "failed"
        /\ call[c].err = <<"UnsupportedFileType">>
        /\ Positions(log, {"setDefaultMaxSize"}) # {}
        /\ call[c].file.size <= config.defaultMaxSize.val

\* C4: the stages of a call run in the order validate, compress (images
\* only), scan (only if virus.enabled), store, each at most once; store runs
\* only after every earlier applicable stage ran without error; a call failed
\* before store has written nothing, a call that returned has written once.
C4_StageOrderAndStoreLast ==
    \A c \in Calls :
        LET st == call[c].stages IN
        /\ Started(c) => st # <<>> /\ st[1] = "validate"
        /\ \A i, j \in DOMAIN st : i < j => StageRank(st[i]) < StageRank(st[j])
        /\ Ran(c, "compress") => StartsWithImage(call[c].file.mimetype)
        /\ Ran(c, "scan") => VirusEnabled(config)
        /\ Ran(c, "store") =>
            /\ validateFile(config, call[c].file) = "ok"
            /\ StartsWithImage(call[c].file.mimetype) => Ran(c, "compress")
            /\ VirusEnabled(config) => Ran(c, "scan") /\ call[c].scan = "clean"
        /\ call[c].writes <= 1
        /\ Cardinality(WrittenBy(c)) <= call[c].writes
        /\ call[c].writes = 1 => Ran(c, "store")
        /\ (call[c].pc = "failed" /\ ~Ran(c, "store")) =>
                call[c].writes = 0 /\ WrittenBy(c) = {}
        /\ call[c].pc = "done" => call[c].writes = 1 /\ call[c].url # <<>>

\* C4 witness: a call that returned after running all four stages, beside a
\* call that failed in the scan stage
C4_Witness ==
    \E c, d \in Calls :
        /\ call[c].pc = "done"
        /\ call[c].stages = <<"validate", "compress", "scan", "store">>
        /\ call[d].pc = "failed"
        /\ call[d].scan = "infected"

\* C8, as claimed: when a Local-backend call returns, its locator is the
\* destination joined with the file's name and the path holds that call's
\* bytes as they left the compression stage, concurrent calls included.
C8_RoundTripAtReturn ==
    [][\A c \in Calls :
        (/\ config.storage.type = "local"
         /\ call[c].pc = "stored"
         /\ call'[c].pc = "done") =>
            /\ call'[c].url = Join(config.storage.config[1], call'[c].file.originalname)
            /\ disk'[call'[c].url].content = call'[c].file.buffer]_vars

\* C8, amended: when a Local-backend call has returned, its locator is the
\* destination joined with the file's name, and the path holds the bytes, as
\* they left the compression stage, of the call that wrote that path last:
\* the call's own unless another call for the same name wrote it since.
C8_LocatorAndLastWriter ==
    \A c \in Calls :
        (config.storage.type = "local" /\ call[c].pc = "done") =>
            /\ call[c].url = Join(config.storage.config[1], call[c].file.originalname)
            /\ call[c].url \in DOMAIN disk
            /\ LET w == disk[call[c].url].by IN
                /\ call[w].pc \in {"stored", "done"}
                /\ call[w].file.originalname = call[c].file.originalname
                /\ disk[call[c].url].content = call[w].file.buffer

\* C8 witness: a returned Local-backend call whose path another call for the
\* same name has overwritten with other bytes
C8_Witness ==
    \E c \in Calls :
        /\ config.storage.type = "local"
        /\ call[c].pc = "done"
        /\ disk[call[c].url].by # c
        /\ disk[call[c].url].content # call[c].file.buffer

\* C9: with scanning enabled and configured, a failure of the engine at any
\* step of the scan stage (init as well as scanStream) makes uploadFile fail
\* with ScanFailed and no storage write; a missing endpoint fails with
\* ScannerMisconfigured, not wrapped.
C9_EngineFailureIsScanFailed ==
    \A c \in Calls :
        /\ call[c].scan \in {"initFailed", "threw"} =>
            /\ call[c].pc = "failed"
            /\ Head(call[c].err) = "ScanFailed"
            /\ call[c].writes = 0
            /\ WrittenBy(c) = {}
        /\ (Ran(c, "scan") /\ config.virus.clamav = <<>>) =>
                call[c].err = <<"ScannerMisconfigured">>

====
